---- MODULE Spec2Model ----
\* Model of boost::histogram::storage_adaptor (storage_adaptor.hpp) over its
\* three backends: vector_augmentation (Growable Dense), array_augmentation
\* (Fixed-Capacity Dense) and map_augmentation (Sparse Map), with a plain
\* integer value_type (element_adaptor_impl<std::false_type, T>).
\*
\* Two storage objects, "a" and "b", are constructed with a backend each and
\* are then driven by a caller through the public operations.  C++ indices
\* are 0-based; the dense buffers are TLA+ sequences, so element i is buf[i+1].
EXTENDS Integers, Sequences, FiniteSets, TLC

\* ---------------------------------------------------------------- bounds
MaxN == 2        \* largest size a caller asks for
Capacity == 1    \* N of the std::array<T, N> behind the fixed-capacity backend
MaxVal == 1      \* element values are kept within 0..MaxVal

Val == 0..MaxVal
\* the amounts passed to add: they raise an element and bring it back down
Amounts == (0 - MaxVal)..MaxVal
Names == {"a", "b"}
Kinds == {"vector", "array", "map"}
\* a caller of the same call on one storage or on both
Targets == {{"a"}, {"b"}, {"a", "b"}}
\* the doubles passed to operator*= and operator/=, as <<numerator, denominator>>;
\* all are powers of two (or zero), so the double product with a small integer
\* and the reciprocal 1.0 / x are exact
Scalars == {<<0, 1>>, <<1, 1>>, <<0 - 1, 1>>, <<2, 1>>, <<1, 2>>}

VARIABLES
  st,        \* st[name]: the storage object (kind, buf, ent, size_)
  last,      \* the last call made: operation, target, outcome
  tally,     \* tally[name]: per index, increments made plus amounts added since reset
  lockstep   \* both storages were reset together and given the same calls since

vars == <<st, last, tally, lockstep>>

\* ------------------------------------------------------- element adaptor
\* value_type(): the default value of the element type
Default == 0

\* element_adaptor_impl<std::false_type, T>::inc:  ++t
element_inc(t) == t + 1

\* element_adaptor_impl<std::false_type, T>::add:  t += u
element_add(t, u) == t + u

\* ------------------------------------------------------------- backends
Zeros(n) == [k \in 1..n |-> Default]

\* faulty variant: resize(n) without the fill
vector_reset_no_fill(s, n) ==
  [s EXCEPT !.buf = [k \in 1..n |-> IF k <= Len(s.buf) THEN s.buf[k] ELSE Default]]

\* std::vector::resize(n) followed by std::fill over the whole range
vector_reset(s, n) == [s EXCEPT !.buf = Zeros(n)]

\* (*this)[i] = u on the vector
vector_set(s, i, u) == [s EXCEPT !.buf[i + 1] = u]

\* max_size() of std::array<T, N>
max_size(s) == Len(s.buf)

\* array_augmentation::reset throws when n > max_size()
array_reset_throws(s, n) == n > max_size(s)

\* array_augmentation::reset past the check: fill_n(begin(), n, value_type()); size_ = n
array_reset(s, n) ==
  [s EXCEPT !.buf = [k \in 1..Len(s.buf) |-> IF k <= n THEN Default ELSE s.buf[k]],
            !.size_ = n]

\* (*this)[i] = u on the array
array_set(s, i, u) == [s EXCEPT !.buf[i + 1] = u]

\* map_augmentation::reset: clear(); size_ = n
map_reset(s, n) == [s EXCEPT !.ent = {}, !.size_ = n]

\* this->find(i): the entries with key i (none, or exactly one)
map_find(s, i) == {e \in s.ent : e[1] = i}

\* map_augmentation::operator[] const: the entry's value, or value_type()
map_index(s, i) ==
  IF map_find(s, i) = {} THEN Default ELSE (CHOOSE e \in map_find(s, i) : TRUE)[2]

\* faulty variant: the incoming value is not compared with value_type()
map_set_stores_default(s, i, u) ==
  [s EXCEPT !.ent = (@ \ map_find(s, i)) \cup {<<i, u>>}]

\* faulty variant: the default value does not erase the entry it finds
map_set_never_erases(s, i, u) ==
  IF u = Default
    THEN s
    ELSE [s EXCEPT !.ent = (@ \ map_find(s, i)) \cup {<<i, u>>}]

\* map_augmentation::set
map_set(s, i, u) ==
  IF u = Default
    THEN IF map_find(s, i) # {} THEN [s EXCEPT !.ent = @ \ map_find(s, i)] ELSE s
    ELSE IF map_find(s, i) # {}
      THEN [s EXCEPT !.ent = (@ \ map_find(s, i)) \cup {<<i, u>>}]
      ELSE [s EXCEPT !.ent = @ \cup {<<i, u>>}]

\* -------------------------------------------- dispatch on the augmentation
\* size(): std::vector::size(), or the size_ member of the array and map
size(s) == IF s.kind = "vector" THEN Len(s.buf) ELSE s.size_

\* the value the expression (*this)[i] or u[i] reads
Index(s, i) == IF s.kind = "map" THEN map_index(s, i) ELSE s.buf[i + 1]

\* the object after (*this)[i] or u[i] was evaluated on it for reading
AfterIndex(s, i) == s

\* the object after v was stored through the expression (*this)[i]: the dense
\* backends return a reference into the buffer; map_augmentation::operator[]
\* returns value_type by value, so the store goes to the temporary
StoreThrough(s, i, v) ==
  IF s.kind = "map" THEN s ELSE [s EXCEPT !.buf[i + 1] = v]

\* reset(n) throws: only array_augmentation::reset does
reset_throws(s, n) == s.kind = "array" /\ array_reset_throws(s, n)

\* faulty variant: a request beyond max_size() is cut down to max_size()
reset_truncating(s, n) ==
  CASE s.kind = "vector" -> vector_reset(s, n)
    [] s.kind = "array" ->
         IF array_reset_throws(s, n) THEN array_reset(s, max_size(s)) ELSE array_reset(s, n)
    [] s.kind = "map" -> map_reset(s, n)

\* reset(n) of the active augmentation; a throwing reset leaves the object as it was
reset(s, n) ==
  CASE s.kind = "vector" -> vector_reset(s, n)
    [] s.kind = "array" -> IF array_reset_throws(s, n) THEN s ELSE array_reset(s, n)
    [] s.kind = "map" -> map_reset(s, n)

\* set(i, u) of the active augmentation
set(s, i, u) ==
  CASE s.kind = "vector" -> vector_set(s, i, u)
    [] s.kind = "array" -> array_set(s, i, u)
    [] s.kind = "map" -> map_set(s, i, u)

\* --------------------------------------------------------- storage_adaptor
\* operator()(i):  element_adaptor::inc((*this)[i])
call_inc(s, i) == StoreThrough(s, i, element_inc(Index(s, i)))

\* operator()(i, u):  element_adaptor::add((*this)[i], u)
call_add(s, i, u) == StoreThrough(s, i, element_add(Index(s, i), u))

\* the loop of operator=(const U&) from index i on: this->set(i, rhs[i])
RECURSIVE copy_from(_, _, _)
copy_from(s, rhs, i) ==
  IF i < size(s) THEN copy_from(set(s, i, Index(rhs, i)), rhs, i + 1) ELSE s

\* faulty variant: the copy loop starts at index 1
assign_skips_first(s, rhs) ==
  IF s.kind = rhs.kind THEN rhs
  ELSE IF reset_throws(s, size(rhs)) THEN s
  ELSE copy_from(reset(s, size(rhs)), rhs, 1)

\* operator=(const U& rhs): reset(rhs.size()), then the copy loop; between two
\* objects of one type the defaulted copy assignment copies every member
assign(s, rhs) ==
  IF s.kind = rhs.kind THEN rhs
  ELSE IF reset_throws(s, size(rhs)) THEN s
  ELSE copy_from(reset(s, size(rhs)), rhs, 0)

\* the loop of operator+= from index i on
RECURSIVE add_from(_, _, _)
add_from(s, u, i) ==
  IF i < size(s)
    THEN add_from(StoreThrough(s, i, element_add(Index(s, i), Index(u, i))), u, i + 1)
    ELSE s

\* operator+=(const U& u)
plus_assign(s, u) == add_from(s, u, 0)

\* int(double(t) * x): the product is exact, the conversion truncates toward zero
times(t, x) ==
  IF t * x[1] >= 0 THEN (t * x[1]) \div x[2] ELSE 0 - ((0 - (t * x[1])) \div x[2])

\* the loop of operator*= from index i on:  (*this)[i] *= x
RECURSIVE scale_from(_, _, _)
scale_from(s, x, i) ==
  IF i < size(s)
    THEN scale_from(StoreThrough(s, i, times(Index(s, i), x)), x, i + 1)
    ELSE s

\* operator*=(const double x)
times_assign(s, x) == scale_from(s, x, 0)

\* 1.0 / x for x # 0
reciprocal(x) == IF x[1] > 0 THEN <<x[2], x[1]>> ELSE <<0 - x[2], 0 - x[1]>>

\* operator/=(const double x)
divide_assign(s, x) == times_assign(s, reciprocal(x))

\* faulty variant: the loop returns after the first comparison
equal_first_only(s, u, i) ==
  IF i < size(s) THEN Index(s, i) = Index(u, i) ELSE TRUE

\* the loop of operator== from index i on, reading through operator[]
RECURSIVE equal_from(_, _, _)
equal_from(s, u, i) ==
  IF i < size(s)
    THEN IF Index(s, i) # Index(u, i) THEN FALSE ELSE equal_from(s, u, i + 1)
    ELSE TRUE

\* operator==(const U& u)
equal(s, u) == IF size(s) # size(u) THEN FALSE ELSE equal_from(s, u, 0)

\* the left object after operator== read all it reads
RECURSIVE after_equal(_, _)
after_equal(s, i) == IF i < size(s) THEN after_equal(AfterIndex(s, i), i + 1) ELSE s

\* ------------------------------------------------------------------ state
Indices(s) == 0..(size(s) - 1)

\* s holds an element that differs from the default value
Dirty(s) == \E i \in Indices(s) : Index(s, i) # Default

\* a default-constructed storage_adaptor of each backend: the vector and the
\* map are empty, size_ is 0, and the std::array elements are indeterminate
Fresh(k) ==
  CASE k = "vector" -> {[kind |-> k, buf |-> <<>>, ent |-> {}, size_ |-> 0]}
    [] k = "array" -> {[kind |-> k, buf |-> b, ent |-> {}, size_ |-> 0] :
                         b \in [1..Capacity -> Val]}
    [] k = "map" -> {[kind |-> k, buf |-> <<>>, ent |-> {}, size_ |-> 0]}

NoTally == [ok |-> FALSE, sum |-> <<>>]
NoCall == [op |-> "none", tgt |-> {}, ret |-> "ok", dirty |-> FALSE]

Init ==
  /\ \E ka \in Kinds, kb \in Kinds :
       \E sa \in Fresh(ka), sb \in Fresh(kb) :
         st = [t \in Names |-> IF t = "a" THEN sa ELSE sb]
  /\ last = NoCall
  /\ tally = [t \in Names |-> NoTally]
  /\ lockstep = FALSE

\* ---------------------------------------------------------------- actions
\* t.reset(n), the spec's resize(n)
Reset(t, n) ==
  /\ st' = [st EXCEPT ![t] = reset(st[t], n)]
  /\ last' = [op |-> "reset", tgt |-> {t},
              ret |-> IF reset_throws(st[t], n) THEN "CapacityExceeded" ELSE "ok",
              dirty |-> Dirty(st[t])]
  /\ UNCHANGED <<tally, lockstep>>

\* t.set(i, v); i < size() is the caller's duty
Set(t, i, v) ==
  /\ i < size(st[t])
  /\ st' = [st EXCEPT ![t] = set(st[t], i, v)]
  /\ last' = [op |-> "set", tgt |-> {t}, ret |-> "ok",
              dirty |-> Index(st[t], i) # Default]
  /\ UNCHANGED <<tally, lockstep>>

\* t(i); BOOST_ASSERT(i < size())
Increment(t, i) ==
  /\ i < size(st[t])
  /\ element_inc(Index(st[t], i)) \in Val
  /\ st' = [st EXCEPT ![t] = call_inc(st[t], i)]
  /\ last' = [op |-> "increment", tgt |-> {t}, ret |-> "ok",
              dirty |-> Index(st[t], i) # Default]
  /\ UNCHANGED <<tally, lockstep>>

\* t(i, u); BOOST_ASSERT(i < size())
Add(t, i, u) ==
  /\ i < size(st[t])
  /\ element_add(Index(st[t], i), u) \in Val
  /\ st' = [st EXCEPT ![t] = call_add(st[t], i, u)]
  /\ last' = [op |-> "add", tgt |-> {t}, ret |-> "ok",
              dirty |-> Index(st[t], i) # Default]
  /\ UNCHANGED <<tally, lockstep>>

\* t = s, or t constructed from s
Assign(t, s) ==
  /\ t # s
  /\ st' = [st EXCEPT ![t] = assign(st[t], st[s])]
  /\ last' = [op |-> "assign", tgt |-> {t},
              ret |-> IF st[t].kind # st[s].kind /\ reset_throws(st[t], size(st[s]))
                        THEN "CapacityExceeded" ELSE "ok",
              dirty |-> Dirty(st[t])]
  /\ UNCHANGED <<tally, lockstep>>

\* t += s; BOOST_ASSERT_MSG(n == u.size())
PlusAssign(t, s) ==
  /\ t # s
  /\ size(st[t]) = size(st[s])
  /\ \A i \in Indices(st[t]) : element_add(Index(st[t], i), Index(st[s], i)) \in Val
  /\ st' = [st EXCEPT ![t] = plus_assign(st[t], st[s])]
  /\ last' = [op |-> "plus_assign", tgt |-> {t}, ret |-> "ok",
              dirty |-> Dirty(st[t]) /\ Dirty(st[s])]
  /\ UNCHANGED <<tally, lockstep>>

\* t *= x
TimesAssign(t, x) ==
  /\ \A i \in Indices(st[t]) : times(Index(st[t], i), x) \in Val
  /\ st' = [st EXCEPT ![t] = times_assign(st[t], x)]
  /\ last' = [op |-> "times_assign", tgt |-> {t}, ret |-> "ok",
              dirty |-> Dirty(st[t])]
  /\ UNCHANGED <<tally, lockstep>>

\* t /= x; 1.0 / 0 is infinite and is left out with the values beyond Val
DivideAssign(t, x) ==
  /\ x[1] # 0
  /\ \A i \in Indices(st[t]) : times(Index(st[t], i), reciprocal(x)) \in Val
  /\ st' = [st EXCEPT ![t] = divide_assign(st[t], x)]
  /\ last' = [op |-> "divide_assign", tgt |-> {t}, ret |-> "ok",
              dirty |-> Dirty(st[t])]
  /\ UNCHANGED <<tally, lockstep>>

\* t == s
Equals(t, s) ==
  /\ t # s
  /\ st' = [u \in Names |-> after_equal(st[u], 0)]
  /\ last' = [op |-> "equal", tgt |-> {t},
              ret |-> IF equal(st[t], st[s]) THEN "true" ELSE "false",
              dirty |-> Dirty(st[t]) /\ Dirty(st[s])]
  /\ UNCHANGED <<tally, lockstep>>

\* The caller works on storage "a"; storage "b" is the other operand, which
\* reset and set bring to any size and content.
Next ==
  \/ \E t \in Names, n \in 0..MaxN : Reset(t, n)
  \/ \E t \in Names, i \in 0..(MaxN - 1), v \in Val : Set(t, i, v)
  \/ \E i \in 0..(MaxN - 1) : Increment("a", i)
  \/ \E i \in 0..(MaxN - 1), u \in Amounts : Add("a", i, u)
  \/ Assign("a", "b")
  \/ PlusAssign("a", "b")
  \/ \E x \in Scalars : TimesAssign("a", x)
  \/ \E x \in Scalars : DivideAssign("a", x)
  \/ Equals("a", "b")

Spec == Init /\ [][Next]_vars

\* ------------------------------------------------- the same calls, followed
\* A caller that resets the storages of T and then gives each of them the same
\* set, increment and add calls; tally and lockstep follow what was called.
ResetAll(T, n) ==
  /\ st' = [t \in Names |-> IF t \in T THEN reset(st[t], n) ELSE st[t]]
  /\ last' = [op |-> "reset", tgt |-> T,
              ret |-> IF \E t \in T : reset_throws(st[t], n)
                        THEN "CapacityExceeded" ELSE "ok",
              dirty |-> \E t \in T : Dirty(st[t])]
  /\ tally' = [t \in Names |->
                 IF t \in T /\ ~reset_throws(st[t], n)
                   THEN [ok |-> TRUE, sum |-> Zeros(n)] ELSE tally[t]]
  /\ lockstep' = IF T = Names
                   THEN \A t \in T : ~reset_throws(st[t], n)
                   ELSE lockstep /\ \A t \in T : reset_throws(st[t], n)

SetAll(T, i, v) ==
  /\ \A t \in T : i < size(st[t])
  /\ st' = [t \in Names |-> IF t \in T THEN set(st[t], i, v) ELSE st[t]]
  /\ last' = [op |-> "set", tgt |-> T, ret |-> "ok",
              dirty |-> \E t \in T : Index(st[t], i) # Default]
  /\ tally' = [t \in Names |-> IF t \in T THEN NoTally ELSE tally[t]]
  /\ lockstep' = (lockstep /\ T = Names)

IncrementAll(T, i) ==
  /\ \A t \in T : /\ i < size(st[t])
                  /\ element_inc(Index(st[t], i)) \in Val
                  /\ tally[t].ok => element_inc(tally[t].sum[i + 1]) \in Val
  /\ st' = [t \in Names |-> IF t \in T THEN call_inc(st[t], i) ELSE st[t]]
  /\ last' = [op |-> "increment", tgt |-> T, ret |-> "ok",
              dirty |-> \E t \in T : Index(st[t], i) # Default]
  /\ tally' = [t \in Names |->
                 IF t \in T /\ tally[t].ok
                   THEN [tally[t] EXCEPT !.sum[i + 1] = @ + 1] ELSE tally[t]]
  /\ lockstep' = (lockstep /\ T = Names)

AddAll(T, i, u) ==
  /\ \A t \in T : /\ i < size(st[t])
                  /\ element_add(Index(st[t], i), u) \in Val
                  /\ tally[t].ok => element_add(tally[t].sum[i + 1], u) \in Val
  /\ st' = [t \in Names |-> IF t \in T THEN call_add(st[t], i, u) ELSE st[t]]
  /\ last' = [op |-> "add", tgt |-> T, ret |-> "ok",
              dirty |-> \E t \in T : Index(st[t], i) # Default]
  /\ tally' = [t \in Names |->
                 IF t \in T /\ tally[t].ok
                   THEN [tally[t] EXCEPT !.sum[i + 1] = @ + u] ELSE tally[t]]
  /\ lockstep' = (lockstep /\ T = Names)

NextFollowed ==
  \/ \E T \in Targets, n \in 0..MaxN : ResetAll(T, n)
  \/ \E T \in Targets, i \in 0..(MaxN - 1), v \in Val : SetAll(T, i, v)
  \/ \E T \in Targets, i \in 0..(MaxN - 1) : IncrementAll(T, i)
  \/ \E T \in Targets, i \in 0..(MaxN - 1), u \in Amounts : AddAll(T, i, u)

SpecFollowed == Init /\ [][NextFollowed]_vars

\* ----------------------------------------------------------------- claims
Fits(s, n) == s.kind # "array" \/ n <= Capacity
Entries(s) == Cardinality(s.ent)
SameElements(s, u) ==
  size(s) = size(u) /\ \A i \in Indices(s) : Index(s, i) = Index(u, i)

\* C1: on each backend, after a reset(n) that fits, size() is n and every index
\* in [0, n) reads as the default value, whatever the storage held before.
C1_ResetGivesDefaults ==
  [][last'.op = "reset" =>
       \A t \in Names, n \in 0..MaxN :
         (Reset(t, n) /\ Fits(st[t], n)) =>
           /\ size(st'[t]) = n
           /\ \A i \in 0..(n - 1) : Index(st'[t], i) = Default]_vars

\* a sparse storage that held a non-default element was reset to MaxN elements
C1_Witness ==
  /\ last.op = "reset" /\ last.tgt = {"a"} /\ last.ret = "ok" /\ last.dirty
  /\ st["a"].kind = "map"
  /\ size(st["a"]) = MaxN

\* C2: on the fixed-capacity backend reset(n) succeeds for n <= Capacity; a
\* request for more, by reset or by assignment from a larger source, fails with
\* CapacityExceeded and leaves size() and every element below it as they were.
C2_CapacityExceeded ==
  [][/\ last'.op = "reset" =>
          \A t \in Names, n \in 0..MaxN :
            (Reset(t, n) /\ st[t].kind = "array") =>
              IF n <= Capacity
                THEN last'.ret = "ok" /\ size(st'[t]) = n
                ELSE last'.ret = "CapacityExceeded" /\ SameElements(st'[t], st[t])
     /\ last'.op = "assign" =>
          \A t \in Names, s \in Names :
            (Assign(t, s) /\ st[t].kind = "array" /\ size(st[s]) > Capacity) =>
              last'.ret = "CapacityExceeded" /\ SameElements(st'[t], st[t])]_vars

\* a fixed-capacity storage holding a non-default element refused an
\* assignment from a larger source and still holds the element
C2_Witness ==
  /\ last.op = "assign" /\ last.tgt = {"a"} /\ last.ret = "CapacityExceeded"
  /\ st["a"].kind = "array"
  /\ size(st["a"]) = Capacity
  /\ Dirty(st["a"])
  /\ size(st["b"]) > Capacity

\* C3: since the last reset, with only increment and add calls made, every
\* element equals the increments made plus the amounts added at its index.
C3_TallyOnEveryBackend ==
  \A t \in Names :
    tally[t].ok =>
      /\ size(st[t]) = Len(tally[t].sum)
      /\ \A i \in Indices(st[t]) : Index(st[t], i) = tally[t].sum[i + 1]

\* C4: a growable dense and a sparse storage reset together and given the same
\* set, increment and add calls compare equal in both directions.
C4_DenseEqualsSparse ==
  (lockstep /\ {st["a"].kind, st["b"].kind} = {"vector", "map"}) =>
    equal(st["a"], st["b"]) /\ equal(st["b"], st["a"])

\* C5: no materialized entry of a sparse storage holds the default value.
C5_NoDefaultEntry ==
  \A t \in Names : \A e \in st[t].ent : e[2] # Default

\* a sparse storage was assigned from a dense one that holds a default and a
\* non-default element, and materialized only the latter
C5_Witness ==
  /\ last.op = "assign" /\ last.tgt = {"a"} /\ last.ret = "ok"
  /\ st["a"].kind = "map" /\ st["b"].kind = "vector"
  /\ size(st["a"]) = 2
  /\ Index(st["b"], 0) = Default /\ Index(st["b"], 1) # Default
  /\ Entries(st["a"]) = 1

C7_AssignCopies ==
  [][last'.op = "assign" =>
       \A t \in Names, s \in Names :
         (Assign(t, s) /\ Fits(st[t], size(st[s]))) =>
           /\ SameElements(st'[t], st[s])
           /\ st'[s] = st[s]
           /\ equal(st'[t], st'[s])]_vars

\* a dirty dense storage of another size was assigned from a dirty sparse one
C7_Witness ==
  /\ last.op = "assign" /\ last.tgt = {"a"} /\ last.ret = "ok" /\ last.dirty
  /\ st["a"].kind = "vector" /\ st["b"].kind = "map"
  /\ size(st["b"]) = MaxN
  /\ Entries(st["b"]) = 1

\* C8: a += b on two storages of equal size sets every element of a to its
\* previous value plus b's element, keeps a's size and leaves b unchanged.
C8_PlusAssignAdds ==
  [][last'.op = "plus_assign" =>
       \A t \in Names, s \in Names :
         PlusAssign(t, s) =>
           /\ size(st'[t]) = size(st[t])
           /\ \A i \in Indices(st[t]) :
                Index(st'[t], i) = Index(st[t], i) + Index(st[s], i)
           /\ st'[s] = st[s]]_vars

\* C9: a == b is false when the sizes differ and otherwise true exactly when
\* the elements agree at every index; the comparison changes neither storage.
C9_EqualIsElementwise ==
  [][last'.op = "equal" =>
       \A t \in Names, s \in Names :
         Equals(t, s) =>
           /\ (last'.ret = "true") <=> SameElements(st[t], st[s])
           /\ size(st[t]) # size(st[s]) => last'.ret = "false"
           /\ st' = st]_vars

\* a dense and a sparse storage holding the same non-default values, with a
\* default element the sparse one does not materialize, compared equal
C9_Witness ==
  /\ last.op = "equal" /\ last.tgt = {"a"}
  /\ last.ret = "true" /\ last.dirty
  /\ st["a"].kind = "map" /\ st["b"].kind = "vector"
  /\ size(st["a"]) = 2
  /\ Entries(st["a"]) = 1

\* every product ai * x is a value of the element type (an integer within Val)
Representable(s, x) ==
  \A i \in Indices(s) :
    (Index(s, i) * x[1]) % x[2] = 0 /\ times(Index(s, i), x) \in Val

\* C10: s *= x keeps size() and makes every element ai * x; s /= x is
\* s *= (1 / x), and (s *= x) /= x restores the elements for x # 0.  Stated
\* for the products the element type represents.
C10_ScalingDistributes ==
  \A t \in Names, x \in Scalars :
    Representable(st[t], x) =>
      /\ size(times_assign(st[t], x)) = size(st[t])
      /\ \A i \in Indices(st[t]) :
           Index(times_assign(st[t], x), i) * x[2] = Index(st[t], i) * x[1]
      /\ x[1] # 0 =>
           /\ divide_assign(st[t], x) = times_assign(st[t], reciprocal(x))
           /\ SameElements(divide_assign(times_assign(st[t], x), x), st[t])

====
